---- MODULE Spec2Model ----
(***************************************************************************)
(* A model of cheatcheat (src/src/cheatcheat/main.py): layered cheatsheet  *)
(* lookup, listing, search and copy-on-write editing over a file system.   *)
(*                                                                         *)
(* Paths are strings, handled character by character as os.path does.      *)
(* The file system is a set of directories and a map from regular files to *)
(* their text (a sequence of lines); there are no symbolic links, so the   *)
(* kernel's path resolution is the lexical one, provided every directory   *)
(* it walks through exists.                                                *)
(***************************************************************************)
EXTENDS Integers, Sequences, FiniteSets, TLC

VARIABLES
    config,   \* the configured cheatpaths, in listed (global -> local) order
    files,    \* regular files: absolute normalised path -> text
    dirs,     \* directories: set of absolute normalised paths
    pc,       \* "idle", or "editor" while the launched editor runs
    opened,   \* the path handed to the running editor ("" when none)
    last,     \* what the most recent invocation did (its branch and result)
    out,      \* what the most recent invocation printed
    nedits    \* number of edit invocations so far

vars == <<config, files, dirs, pc, opened, last, out, nedits>>

---------------------------------------------------------------------------
(* Bounds of the model *)

\* the initial file system holds at most MaxSheets files of the pool
MaxSheets == 2

\* a behaviour holds at most MaxEdits edit invocations
MaxEdits == 2

---------------------------------------------------------------------------
(* Strings *)

Char(s, i) == SubSeq(s, i, i)

startswith(s, p) == Len(p) <= Len(s) /\ SubSeq(s, 1, Len(p)) = p

endswith(s, p) == Len(p) <= Len(s) /\ SubSeq(s, Len(s) - Len(p) + 1, Len(s)) = p

SetMin(S) == CHOOSE x \in S : \A y \in S : x <= y

RECURSIVE scanup(_, _, _)
scanup(s, c, i) ==
    IF i > Len(s) THEN 0 ELSE IF Char(s, i) = c THEN i ELSE scanup(s, c, i + 1)

RECURSIVE scandown(_, _, _)
scandown(s, c, i) ==
    IF i = 0 THEN 0 ELSE IF Char(s, i) = c THEN i ELSE scandown(s, c, i - 1)

\* str.find(c) + 1: the first position of character c in s, 0 when absent
find(s, c) == scanup(s, c, 1)

\* str.rfind(c) + 1: the last position of character c in s, 0 when absent
rfind(s, c) == scandown(s, c, Len(s))

\* s.split('/')
RECURSIVE split(_)
split(s) ==
    LET i == find(s, "/")
    IN  IF i = 0 THEN <<s>>
        ELSE <<SubSeq(s, 1, i - 1)>> \o split(SubSeq(s, i + 1, Len(s)))

\* '/'.join(comps)
RECURSIVE joincomps(_)
joincomps(comps) ==
    IF comps = <<>> THEN ""
    ELSE IF Len(comps) = 1 THEN comps[1]
    ELSE comps[1] \o "/" \o joincomps(Tail(comps))

\* s.rstrip('/')
RECURSIVE rstripslash(_)
rstripslash(s) ==
    IF s # "" /\ endswith(s, "/") THEN rstripslash(SubSeq(s, 1, Len(s) - 1)) ELSE s

\* The characters the model's strings use, in code point order
Alphabet == " #'-./0123456789:ABCDEFGHIJKLMNOPQRSTUVWXYZ_abcdefghijklmnopqrstuvwxyz~"

Uppercase == "ABCDEFGHIJKLMNOPQRSTUVWXYZ"

Lowercase == "abcdefghijklmnopqrstuvwxyz"

ord(c) == find(Alphabet, c)

\* Python's < on str: by code point, a proper prefix first
RECURSIVE strless(_, _)
strless(a, b) ==
    IF b = "" THEN FALSE
    ELSE IF a = "" THEN TRUE
    ELSE IF Char(a, 1) = Char(b, 1)
         THEN strless(SubSeq(a, 2, Len(a)), SubSeq(b, 2, Len(b)))
         ELSE ord(Char(a, 1)) < ord(Char(b, 1))

\* sorted(S) for a set of strings
RECURSIVE sorted(_)
sorted(S) ==
    IF S = {} THEN <<>>
    ELSE LET m == CHOOSE x \in S : \A y \in S : y = x \/ strless(x, y)
         IN  <<m>> \o sorted(S \ {m})

\* str.lower()
RECURSIVE lower(_)
lower(s) ==
    IF s = "" THEN ""
    ELSE LET c == Char(s, 1)
             i == find(Uppercase, c)
         IN  (IF i = 0 THEN c ELSE Char(Lowercase, i)) \o lower(SubSeq(s, 2, Len(s)))

\* a in b, for strings
contains(b, a) ==
    \E i \in 1..(Len(b) - Len(a) + 1) : SubSeq(b, i, i + Len(a) - 1) = a

\* str.strip()
RECURSIVE strip(_)
strip(s) ==
    IF s # "" /\ Char(s, 1) = " " THEN strip(SubSeq(s, 2, Len(s)))
    ELSE IF s # "" /\ Char(s, Len(s)) = " " THEN strip(SubSeq(s, 1, Len(s) - 1))
    ELSE s

---------------------------------------------------------------------------
(* os.path *)

\* the working directory and the home directory of the invocation
getcwd == "/c"

HOME == "/h"

\* posixpath.join(a, b)
join(a, b) ==
    IF startswith(b, "/") THEN b
    ELSE IF a = "" \/ endswith(a, "/") THEN a \o b
    ELSE a \o "/" \o b

\* the component loop of posixpath.normpath
RECURSIVE normcomps(_, _, _)
normcomps(comps, new, initial) ==
    IF comps = <<>> THEN new
    ELSE LET comp == Head(comps)
             rest == Tail(comps)
         IN  IF comp = "" \/ comp = "." THEN normcomps(rest, new, initial)
             ELSE IF comp # ".."
                     \/ (initial = 0 /\ new = <<>>)
                     \/ (new # <<>> /\ new[Len(new)] = "..")
                  THEN normcomps(rest, Append(new, comp), initial)
             ELSE IF new # <<>>
                  THEN normcomps(rest, SubSeq(new, 1, Len(new) - 1), initial)
             ELSE normcomps(rest, new, initial)

\* posixpath.normpath(path)
normpath(path) ==
    IF path = "" THEN "."
    ELSE LET initial == IF startswith(path, "//") /\ ~startswith(path, "///") THEN 2
                        ELSE IF startswith(path, "/") THEN 1
                        ELSE 0
             body == joincomps(normcomps(split(path), <<>>, initial))
             res == (IF initial = 2 THEN "//" ELSE IF initial = 1 THEN "/" ELSE "") \o body
         IN  IF res = "" THEN "." ELSE res

\* posixpath.abspath(path)
abspath(path) ==
    normpath(IF startswith(path, "/") THEN path ELSE join(getcwd, path))

\* posixpath.split(p): <<head, tail>>
pathsplit(p) ==
    LET i == rfind(p, "/")
        head == SubSeq(p, 1, i)
        tail == SubSeq(p, i + 1, Len(p))
        stripped == rstripslash(head)
    IN  <<IF stripped = "" THEN head ELSE stripped, tail>>

dirname(p) == pathsplit(p)[1]

basename(p) == SubSeq(p, rfind(p, "/") + 1, Len(p))

\* genericpath._splitext: <<root, ext>>; the leading dots of the last
\* component never start an extension
RECURSIVE firstnondot(_, _)
firstnondot(p, i) ==
    IF i > Len(p) THEN i ELSE IF Char(p, i) = "." THEN firstnondot(p, i + 1) ELSE i

splitext(p) ==
    LET sep == rfind(p, "/")
        dot == rfind(p, ".")
    IN  IF dot > sep /\ firstnondot(p, sep + 1) < dot
        THEN <<SubSeq(p, 1, dot - 1), SubSeq(p, dot, Len(p))>>
        ELSE <<p, "">>

\* posixpath.expanduser(path), for the current user
expanduser(path) ==
    IF ~startswith(path, "~") THEN path
    ELSE LET i == find(path, "/")
             rest == IF i = 0 THEN "" ELSE SubSeq(path, i, Len(path))
             user == IF i = 0 THEN path ELSE SubSeq(path, 1, i - 1)
         IN  IF user # "~" THEN path
             ELSE LET res == rstripslash(HOME) \o rest
                  IN  IF res = "" THEN "/" ELSE res

\* posixpath.relpath(path, start), both absolute and normalised, path under start
relpath(path, start) ==
    IF path = start THEN "."
    ELSE IF start = "/" THEN SubSeq(path, 2, Len(path))
    ELSE SubSeq(path, Len(start) + 2, Len(path))

---------------------------------------------------------------------------
(* The file system: F maps regular files to their text, D is the set of    *)
(* directories.                                                            *)

child(cur, c) == join(cur, c)

parent(cur) == IF cur = "/" THEN "/" ELSE dirname(cur)

\* The kernel's walk along the components of an absolute path: every
\* component is looked up in a directory that must exist.  "" when it fails.
RECURSIVE walkcomps(_, _, _)
walkcomps(D, comps, cur) ==
    IF comps = <<>> THEN cur
    ELSE LET c == Head(comps)
         IN  IF c = "" THEN walkcomps(D, Tail(comps), cur)
             ELSE IF cur \notin D THEN ""
             ELSE walkcomps(D, Tail(comps),
                            IF c = "." THEN cur
                            ELSE IF c = ".." THEN parent(cur)
                            ELSE child(cur, c))

\* the file system object a path names: its absolute normalised path, or ""
resolve(D, path) ==
    walkcomps(D, split(IF startswith(path, "/") THEN path ELSE join(getcwd, path)), "/")

isfile(F, D, path) == resolve(D, path) \in DOMAIN F

isdir(D, path) == resolve(D, path) \in D

exists(F, D, path) == isfile(F, D, path) \/ isdir(D, path)

\* os.listdir(d): the names of the entries of directory d
listdir(F, D, d) ==
    {basename(q) : q \in {e \in (DOMAIN F \cup D) \ {"/"} : dirname(e) = d}}

\* os.mkdir(path): the error raised ("none", "exists" for FileExistsError,
\* "other" for any other OSError) and the directories afterwards
mkdir(F, D, path) ==
    LET head == pathsplit(path)[1]
        tail == pathsplit(path)[2]
        par == resolve(D, head)
    IN  IF par \notin D THEN [err |-> "other", dirs |-> D]
        ELSE IF tail \in {"", ".", ".."} THEN [err |-> "exists", dirs |-> D]
        ELSE IF child(par, tail) \in D \cup DOMAIN F THEN [err |-> "exists", dirs |-> D]
        ELSE [err |-> "none", dirs |-> D \cup {child(par, tail)}]

\* os.makedirs(name, exist_ok=True)
RECURSIVE makedirs(_, _, _)
makedirs(F, D, name) ==
    LET s1 == pathsplit(name)
        s == IF s1[2] = "" THEN pathsplit(s1[1]) ELSE s1
        head == s[1]
        tail == s[2]
        needhead == head # "" /\ tail # "" /\ ~exists(F, D, head)
        sub == IF needhead THEN makedirs(F, D, head) ELSE [err |-> "none", dirs |-> D]
    IN  IF needhead /\ sub.err = "other" THEN sub
        ELSE IF needhead /\ tail = "." THEN [err |-> "none", dirs |-> sub.dirs]
        ELSE LET m == mkdir(F, sub.dirs, name)
             IN  IF m.err = "none" THEN m
                 ELSE IF isdir(sub.dirs, name) THEN [err |-> "none", dirs |-> sub.dirs]
                 ELSE [err |-> m.err, dirs |-> sub.dirs]

\* shutil.copy2(src, dst): whether it raised, and the files afterwards
\* (the copied timestamps are not part of the model)
copy2(F, D, src, dst) ==
    LET dst1 == IF isdir(D, dst) THEN join(dst, basename(src)) ELSE dst
        rs == resolve(D, src)
        rd == resolve(D, dst1)
    IN  IF rs \notin DOMAIN F THEN [err |-> TRUE, files |-> F]
        ELSE IF rd = rs THEN [err |-> TRUE, files |-> F]
        ELSE IF rd = "" \/ rd \in D \/ parent(rd) \notin D THEN [err |-> TRUE, files |-> F]
        ELSE [err |-> FALSE,
              files |-> [p \in DOMAIN F \cup {rd} |-> IF p = rd THEN F[rs] ELSE F[p]]]

\* glob.glob(target + ".*"), for a target without wildcard characters: the
\* entries of the target's directory whose name starts with the target's
\* last component and a dot, each joined to that directory as written
glob(F, D, target) ==
    LET d == dirname(target)
        b == basename(target)
        rd == resolve(D, d)
    IN  IF rd \notin D THEN {}
        ELSE {join(d, e) : e \in {n \in listdir(F, D, rd) :
                                     /\ startswith(n, b \o ".")
                                     /\ (startswith(n, ".") => startswith(b, "."))}}

---------------------------------------------------------------------------
(* get_cheatpaths and find_cheatsheet *)

LocalEntry ==
    [name |-> "local", path |-> join(getcwd, ".cheat"), readonly |-> FALSE,
     tags |-> <<"local">>]

\* the configured layers with their paths expanded, then the local .cheat
\* directory of the working directory when it exists
get_cheatpaths(cfg, D) ==
    [i \in 1..Len(cfg) |-> [cfg[i] EXCEPT !.path = expanduser(cfg[i].path)]]
    \o (IF isdir(D, LocalEntry.path) THEN <<LocalEntry>> ELSE <<>>)

\* the security check of find_cheatsheet: TRUE when the layer is skipped
escapes(base_dir, cheatname) ==
    ~startswith(abspath(join(base_dir, cheatname)), abspath(base_dir))

NotFound == [entry |-> 0, path |-> ""]

\* (mutant) the extension match tried before the exact file
RECURSIVE findfrom_glob_first(_, _, _, _, _)
findfrom_glob_first(F, D, cheatname, paths, i) ==
    IF i = 0 THEN {NotFound}
    ELSE LET base_dir == paths[i].path
             target_path == join(base_dir, cheatname)
             matches == glob(F, D, target_path)
         IN  IF escapes(base_dir, cheatname)
             THEN findfrom_glob_first(F, D, cheatname, paths, i - 1)
             ELSE IF matches # {}
             THEN {[entry |-> i, path |-> m] : m \in matches}
             ELSE IF isfile(F, D, target_path)
             THEN {[entry |-> i, path |-> target_path]}
             ELSE findfrom_glob_first(F, D, cheatname, paths, i - 1)

\* find_cheatsheet(cheatname, paths), from layer i down to the first: the
\* results it can return.  entry is the index of the layer in paths (0 for
\* None); glob's order is the directory's enumeration order, which is any.
RECURSIVE findfrom(_, _, _, _, _)
findfrom(F, D, cheatname, paths, i) ==
    IF i = 0 THEN {NotFound}
    ELSE LET base_dir == paths[i].path
             target_path == join(base_dir, cheatname)
             matches == glob(F, D, target_path)
         IN  IF escapes(base_dir, cheatname)
             THEN findfrom(F, D, cheatname, paths, i - 1)
             ELSE IF isfile(F, D, target_path)
             THEN {[entry |-> i, path |-> target_path]}
             ELSE IF matches # {}
             THEN {[entry |-> i, path |-> m] : m \in matches}
             ELSE findfrom(F, D, cheatname, paths, i - 1)

\* (mutant) the search run in listed order, most global first
find_cheatsheet_global_first(F, D, cheatname, paths) ==
    LET n == Len(paths)
        reversed == [i \in 1..n |-> paths[n + 1 - i]]
    IN  {IF r.entry = 0 THEN r ELSE [r EXCEPT !.entry = n + 1 - r.entry] :
            r \in findfrom(F, D, cheatname, reversed, n)}

find_cheatsheet(F, D, cheatname, paths) ==
    findfrom(F, D, cheatname, paths, Len(paths))

\* (mutant) the last writable layer, the most local one
last_writable(paths) ==
    LET W == {i \in 1..Len(paths) : ~paths[i].readonly}
    IN  IF W = {} THEN 0 ELSE CHOOSE x \in W : \A y \in W : y <= x

\* (mutant) the first writable layer, and the first layer when none is writable
first_writable_or_first(paths) ==
    LET W == {i \in 1..Len(paths) : ~paths[i].readonly}
    IN  IF W # {} THEN SetMin(W) ELSE IF paths # <<>> THEN 1 ELSE 0

\* the first writable layer in list order (0 when there is none)
first_writable(paths) ==
    LET W == {i \in 1..Len(paths) : ~paths[i].readonly}
    IN  IF W = {} THEN 0 ELSE SetMin(W)

---------------------------------------------------------------------------
(* The universe of the model: configurations, sheets, names, texts *)

Layer(n, p, ro) == [name |-> n, path |-> p, readonly |-> ro, tags |-> <<>>]

\* the layers a conf.yml may list: a global and a personal one, each
\* read-only or writable
LayerPool ==
    {Layer("global", "/g", ro) : ro \in BOOLEAN}
    \cup {Layer("work", "~/w", ro) : ro \in BOOLEAN}

\* conf.yml: no layer, one layer, or two layers with different roots, in
\* either order
Configs ==
    {<<>>} \cup {<<a>> : a \in LayerPool}
    \cup {c \in {<<a, b>> : a, b \in LayerPool} : c[1].path # c[2].path}

\* directories that exist from the start
BaseDirs == {"/", "/c", "/g", "/h", "/h/w"}

\* the files the initial file system is drawn from: sheets named N or N.ext,
\* in namespaces (d, t) and hidden directories (.git), a file beside the
\* global root in a directory whose name extends the root's (/g2), and a
\* file above it (/s), and a sheet of the local .cheat directory
SheetPool ==
    {"/g/t", "/g/t.md", "/g/t.txt", "/g/d/t.md", "/g/.git/c", "/g/.s.md",
     "/g2/s", "/s", "/h/w/t.md", "/h/w/t/x", "/c/.cheat/t.md"}

GlobalText == <<"# g", " Tar -x ">>

WorkText == <<"tar w">>

LocalText == <<"local">>

OtherText == <<"secret">>

\* what the editor saves
EditedText == <<"tar e">>

TextOf(p) ==
    IF startswith(p, "/g/") THEN GlobalText
    ELSE IF startswith(p, "/h/w/") THEN WorkText
    ELSE IF startswith(p, "/c/") THEN LocalText
    ELSE OtherText

\* the files the edit command's initial file system is drawn from
EditPool ==
    {"/g/t", "/g/t.md", "/g/d/t.md", "/h/w/t.md", "/h/w/t/x", "/c/.cheat/t.md"}

\* the names given on the command line: a sheet, a sheet with its
\* extension, a sheet of a namespace, and names that climb out of a layer;
\* for edit also a new sheet of a namespace named as a sheet is
Names == {"t", "t.md", "d/t", "../s", "../g2/s", "../x/n"}

EditNames == {"t", "d/t", "t/n", "../x/n"}

\* the layer names given to --path ("" for none) and the search terms
Filters == {"", "work"}

Terms == {"TAR", "loc"}

\* the proper ancestors of an absolute normalised path
RECURSIVE ancestors(_)
ancestors(p) == IF p = "/" THEN {} ELSE {parent(p)} \cup ancestors(parent(p))

NoCommand ==
    [op |-> "none", name |-> "", branch |-> "", paths |-> <<>>, entry |-> 0,
     path |-> "", target |-> 0, newpath |-> "", exit |-> 0]

msg(text) == [sheet |-> "", line |-> 0, text |-> text]

InitWith(cfgs, pool) ==
    /\ config \in cfgs
    /\ \E sheets \in SUBSET pool :
          /\ Cardinality(sheets) <= MaxSheets
          /\ files = [p \in sheets |-> TextOf(p)]
          /\ dirs = BaseDirs \cup UNION {ancestors(p) : p \in sheets}
    /\ pc = "idle"
    /\ opened = ""
    /\ last = NoCommand
    /\ out = <<>>
    /\ nedits = 0

Init == InitWith(Configs, SheetPool)

---------------------------------------------------------------------------
(* view *)

\* view_cheatsheet, run from main: the pager only reads the file
View(cheatname) ==
    /\ pc = "idle"
    /\ LET paths == get_cheatpaths(config, dirs)
       IN  \E r \in find_cheatsheet(files, dirs, cheatname, paths) :
              /\ last' = [NoCommand EXCEPT
                            !.op = "view", !.name = cheatname, !.paths = paths,
                            !.branch = IF r.entry = 0 THEN "notfound" ELSE "found",
                            !.entry = r.entry, !.path = r.path,
                            !.exit = IF r.entry = 0 THEN 1 ELSE 0]
              /\ out' = IF r.entry = 0
                        THEN <<msg("No cheatsheet found for '" \o cheatname \o "'.")>>
                        ELSE <<>>
    /\ UNCHANGED <<config, files, dirs, pc, opened, nedits>>

---------------------------------------------------------------------------
(* list, search, directories *)

\* every order of a finite set
RECURSIVE perms(_)
perms(S) ==
    IF S = {} THEN {<<>>}
    ELSE UNION {{<<x>> \o q : q \in perms(S \ {x})} : x \in S}

\* os.walk(top), top-down: the files of top in the order the directory
\* enumerates them (any), then each subdirectory's walk, hidden ones
\* included, the subdirectories in any order.  The orders it can produce.
RECURSIVE walk(_, _, _)
RECURSIVE walkeach(_, _, _)
walk(F, D, top) ==
    LET fs == {p \in DOMAIN F : dirname(p) = top}
        ds == {d \in D \ {"/"} : dirname(d) = top}
    IN  UNION {{fo \o rest : rest \in walkeach(F, D, do)} :
                 fo \in perms(fs), do \in perms(ds)}

walkeach(F, D, ds) ==
    IF ds = <<>> THEN {<<>>}
    ELSE {a \o b : a \in walk(F, D, Head(ds)), b \in walkeach(F, D, Tail(ds))}

\* the sheet name printed for a file of a layer: its path relative to the
\* layer's directory, without its extension
sheet_name(abs_path, base_dir) == splitext(relpath(abs_path, abspath(base_dir)))[1]

\* the files of one walk that list and search keep: the hidden test looks
\* at the file's own name only
visible(w) == SelectSeq(w, LAMBDA p : ~startswith(basename(p), "."))

seqrange(q) == {q[i] : i \in 1..Len(q)}

\* list_cheatsheets(paths, filter_path_name): the sorted sheet names
list_cheatsheets(F, D, paths, filter_path_name) ==
    LET of(entry) ==
            IF filter_path_name # "" /\ entry.name # filter_path_name THEN {}
            ELSE IF ~isdir(D, entry.path) THEN {}
            ELSE LET w == CHOOSE x \in walk(F, D, resolve(D, entry.path)) : TRUE
                 IN  {sheet_name(p, entry.path) : p \in seqrange(visible(w))}
    IN  sorted(UNION {of(paths[i]) : i \in 1..Len(paths)})

\* the hits search prints for one file, from line i on
RECURSIVE hits(_, _, _, _)
hits(lines, i, sheet, term) ==
    IF i > Len(lines) THEN <<>>
    ELSE (IF contains(lower(lines[i]), lower(term))
          THEN <<[sheet |-> sheet, line |-> i, text |-> strip(lines[i])]>>
          ELSE <<>>)
         \o hits(lines, i + 1, sheet, term)

RECURSIVE filehits(_, _, _, _)
filehits(F, w, base_dir, term) ==
    IF w = <<>> THEN <<>>
    ELSE hits(F[Head(w)], 1, sheet_name(Head(w), base_dir), term)
         \o filehits(F, Tail(w), base_dir, term)

\* search_cheatsheets(term, paths), from layer i on: the outputs it can
\* print, one for each order the walks can take
RECURSIVE search_cheatsheets(_, _, _, _, _)
search_cheatsheets(F, D, term, paths, i) ==
    IF i > Len(paths) THEN {<<>>}
    ELSE LET base_dir == paths[i].path
             here == IF ~isdir(D, base_dir) THEN {<<>>}
                     ELSE {filehits(F, visible(w), base_dir, term) :
                             w \in walk(F, D, resolve(D, base_dir))}
         IN  {a \o b : a \in here, b \in search_cheatsheets(F, D, term, paths, i + 1)}

List(filter_path_name) ==
    /\ pc = "idle"
    /\ LET paths == get_cheatpaths(config, dirs)
           sheets == list_cheatsheets(files, dirs, paths, filter_path_name)
       IN  /\ out' = [i \in 1..Len(sheets) |-> [sheet |-> sheets[i], line |-> 0, text |-> ""]]
           /\ last' = [NoCommand EXCEPT !.op = "list", !.name = filter_path_name,
                                        !.paths = paths]
    /\ UNCHANGED <<config, files, dirs, pc, opened, nedits>>

Search(term) ==
    /\ pc = "idle"
    /\ LET paths == get_cheatpaths(config, dirs)
       IN  /\ \E o \in search_cheatsheets(files, dirs, term, paths, 1) : out' = o
           /\ last' = [NoCommand EXCEPT !.op = "search", !.name = term, !.paths = paths]
    /\ UNCHANGED <<config, files, dirs, pc, opened, nedits>>

\* main with --directories
Directories ==
    /\ pc = "idle"
    /\ LET paths == get_cheatpaths(config, dirs)
       IN  /\ out' = [i \in 1..Len(paths) |->
                        msg(paths[i].name \o ": " \o paths[i].path \o " (readonly: "
                            \o (IF paths[i].readonly THEN "True" ELSE "False") \o ")")]
           /\ last' = [NoCommand EXCEPT !.op = "directories", !.paths = paths]
    /\ UNCHANGED <<config, files, dirs, pc, opened, nedits>>

---------------------------------------------------------------------------
(* edit *)

NoWritable == msg("Error: No writable cheatpath found.")

\* edit_cheatsheet, run from main, up to the launch of the editor.  An
\* exception (makedirs or copy2 raising) ends the invocation with exit code 1
\* and leaves what was done before it.
Edit(cheatname) ==
    /\ pc = "idle"
    /\ nedits < MaxEdits
    /\ nedits' = nedits + 1
    /\ config' = config
    /\ LET paths == get_cheatpaths(config, dirs)
           target == first_writable(paths)
           cmd == [NoCommand EXCEPT !.op = "edit", !.name = cheatname, !.paths = paths]
       IN  \E r \in find_cheatsheet(files, dirs, cheatname, paths) :
             IF r.entry # 0 /\ ~paths[r.entry].readonly
             THEN \* found in a writable layer: open it in place
                  /\ pc' = "editor" /\ opened' = r.path
                  /\ UNCHANGED <<files, dirs>>
                  /\ out' = <<>>
                  /\ last' = [cmd EXCEPT !.branch = "open", !.entry = r.entry,
                                         !.path = r.path]
             ELSE IF r.entry # 0
             THEN \* found in a read-only layer: copy to the first writable one
                  LET copying == msg("Path '" \o paths[r.entry].name
                                     \o "' is read-only. Copying to personal path...")
                      joined == join(paths[target].path, cheatname)
                      ext == splitext(r.path)[2]
                      new_full_path == IF ext # "" /\ ~endswith(joined, ext)
                                       THEN joined \o ext ELSE joined
                      md == makedirs(files, dirs, dirname(new_full_path))
                      cp == copy2(files, md.dirs, r.path, new_full_path)
                      found == [cmd EXCEPT !.entry = r.entry, !.path = r.path]
                  IN  IF target = 0
                      THEN /\ UNCHANGED <<files, dirs, pc, opened>>
                           /\ out' = <<copying, NoWritable>>
                           /\ last' = [found EXCEPT !.branch = "nowritable", !.exit = 1]
                      ELSE IF md.err # "none" \/ cp.err
                      THEN /\ UNCHANGED <<files, pc, opened>>
                           /\ dirs' = md.dirs
                           /\ out' = <<copying>>
                           /\ last' = [found EXCEPT !.branch = "crash", !.exit = 1,
                                         !.target = target, !.newpath = new_full_path]
                      ELSE /\ files' = cp.files
                           /\ dirs' = md.dirs
                           /\ pc' = "editor" /\ opened' = new_full_path
                           /\ out' = <<copying, msg("Copied to " \o new_full_path)>>
                           /\ last' = [found EXCEPT !.branch = "copy",
                                         !.target = target, !.newpath = new_full_path]
             ELSE \* not found: a new sheet in the first writable layer
                  LET new_full_path == join(paths[target].path, cheatname)
                      md == makedirs(files, dirs, dirname(new_full_path))
                  IN  IF target = 0
                      THEN /\ UNCHANGED <<files, dirs, pc, opened>>
                           /\ out' = <<NoWritable>>
                           /\ last' = [cmd EXCEPT !.branch = "nowritable", !.exit = 1]
                      ELSE IF md.err # "none"
                      THEN /\ UNCHANGED <<files, pc, opened>>
                           /\ dirs' = md.dirs
                           /\ out' = <<>>
                           /\ last' = [cmd EXCEPT !.branch = "crash", !.exit = 1,
                                         !.target = target, !.newpath = new_full_path]
                      ELSE /\ files' = files
                           /\ dirs' = md.dirs
                           /\ pc' = "editor" /\ opened' = new_full_path
                           /\ out' = <<>>
                           /\ last' = [cmd EXCEPT !.branch = "new",
                                         !.target = target, !.newpath = new_full_path]

\* The editor, a separate process the invocation waits for: it writes the
\* file it was given (when that names a file it can create or rewrite) ...
EditorSave ==
    /\ pc = "editor"
    /\ LET f == resolve(dirs, opened)
       IN  /\ f # "" /\ f \notin dirs /\ parent(f) \in dirs
           /\ files' = [p \in DOMAIN files \cup {f} |->
                          IF p = f THEN EditedText ELSE files[p]]
    /\ pc' = "idle" /\ opened' = ""
    /\ last' = NoCommand /\ out' = <<>>
    /\ UNCHANGED <<config, dirs, nedits>>

\* ... or exits without writing.  Either way the invocation ends with it.
EditorQuit ==
    /\ pc = "editor"
    /\ pc' = "idle" /\ opened' = ""
    /\ last' = NoCommand /\ out' = <<>>
    /\ UNCHANGED <<config, files, dirs, nedits>>

---------------------------------------------------------------------------
(* main: one invocation per step *)

Next ==
    \/ \E n \in Names : View(n)
    \/ \E n \in Names : Edit(n)
    \/ EditorSave
    \/ EditorQuit
    \/ \E f \in Filters : List(f)
    \/ \E t \in Terms : Search(t)
    \/ Directories

Spec == Init /\ [][Next]_vars

\* Lookup alone: view on every initial file system
NextResolve == \E n \in Names : View(n)

SpecResolve == Init /\ [][NextResolve]_vars

\* Aggregation alone: list, search and directories on every initial file system
NextAggregate ==
    \/ \E f \in Filters : List(f)
    \/ \E t \in Terms : Search(t)
    \/ Directories

SpecAggregate == Init /\ [][NextAggregate]_vars

\* Editing alone: edit invocations and the editor they launch
InitEdit == InitWith(Configs, EditPool)

NextEdit ==
    \/ \E n \in EditNames : Edit(n)
    \/ EditorSave
    \/ EditorQuit

SpecEdit == InitEdit /\ [][NextEdit]_vars

---------------------------------------------------------------------------
(* Vocabulary of the properties *)

SetMax(S) == CHOOSE x \in S : \A y \in S : y <= x

\* the layers of an invocation made in the current state
Layers == get_cheatpaths(config, dirs)

\* the root directory of layer i of P
RootOf(P, i) == abspath(P[i].path)

\* path p is root or lies below it
Inside(p, root) == p = root \/ startswith(p, root \o "/")

\* where name N would be in layer i
Candidate(i, N) == normpath(join(Layers[i].path, N))

\* entry e is named as c with an extension appended
IsExtensionOf(e, c) ==
    dirname(e) = dirname(c) /\ startswith(basename(e), basename(c) \o ".")

\* the files of layer i that answer N: the file N itself, or N.<ext>
Answers(i, N) ==
    {f \in DOMAIN files :
        /\ Inside(f, RootOf(Layers, i))
        /\ (f = Candidate(i, N) \/ IsExtensionOf(f, Candidate(i, N)))}

Matching(N) == {i \in 1..Len(Layers) : Answers(i, N) # {}}

\* view has looked a name up: last.name is the name, last.entry the layer
\* returned (0 for none) and last.path the path returned.  view changes no
\* file, so the file system is the one the lookup saw.
Viewed == last.op = "view"

\* N is an exact file of layer i: a regular file at join(root of layer i, N),
\* inside that root
Present(i, N) ==
    /\ isfile(files, dirs, join(Layers[i].path, N))
    /\ Inside(Candidate(i, N), RootOf(Layers, i))

\* a path relative to a layer has a hidden segment
Hidden(rel) == \E c \in seqrange(split(rel)) : startswith(c, ".")

\* the step is an edit invocation
EditStep == nedits' = nedits + 1

---------------------------------------------------------------------------
(* C1: when a name matches a file (N itself or N.<ext>) in more than one   *)
(* layer, a lookup returns a match of the most local matching layer: the   *)
(* matching layer that is last in listed order, the local .cheat layer     *)
(* after the configured ones.                                              *)
C1_LocalOverridesGlobal ==
    (Viewed /\ Cardinality(Matching(last.name)) > 1) =>
        /\ last.entry = SetMax(Matching(last.name))
        /\ resolve(dirs, last.path) \in Answers(last.entry, last.name)

\* view has returned a writable, more local layer's sheet that a read-only,
\* more global layer holds too
C1_Witness ==
    /\ Viewed /\ last.entry # 0
    /\ ~Layers[last.entry].readonly
    /\ \E j \in Matching(last.name) : j < last.entry /\ Layers[j].readonly

(* C2: a lookup never returns a path outside the root of the layer it      *)
(* attributes the sheet to, whatever the name and the layer root.          *)
C2_LookupStaysInsideLayer ==
    (Viewed /\ last.entry # 0) =>
        Inside(resolve(dirs, last.path), RootOf(Layers, last.entry))

(* C3: when edit finds the name in a read-only layer as file F and a       *)
(* writable layer exists, then as the editor is launched the target        *)
(* T = join(writable root, N) (F's extension appended when T lacks it) is  *)
(* a file with F's text, T's parent directories exist, and F is unchanged. *)
C3_CopyOnWrite ==
    [][(/\ EditStep
        /\ pc' = "editor"
        /\ last'.entry # 0
        /\ last'.paths[last'.entry].readonly
        /\ last'.target # 0
        /\ resolve(dirs, last'.path) \in DOMAIN files)
       => LET F == resolve(dirs, last'.path)
              W == last'.paths[last'.target]
              ext == splitext(F)[2]
              joined == join(W.path, last'.name)
              T == normpath(IF ext # "" /\ ~endswith(joined, ext)
                            THEN joined \o ext ELSE joined)
          IN  /\ T \in DOMAIN files'
              /\ files'[T] = files[F]
              /\ ancestors(T) \subseteq dirs'
              /\ F \in DOMAIN files' /\ files'[F] = files[F]]_vars

(* C4: in the copy-on-write case and in the create-new case, edit writes   *)
(* into the first layer in listed order that is not read-only, also when a *)
(* more local writable layer exists.                                       *)
C4_FirstWritableIsTarget ==
    (last.op = "edit" /\ last.branch \in {"copy", "new", "crash"}) =>
        LET P == last.paths
            t == last.target
        IN  /\ t \in 1..Len(P)
            /\ ~P[t].readonly
            /\ \A j \in 1..(t - 1) : P[j].readonly
            /\ startswith(last.newpath, join(P[t].path, last.name))
            /\ (pc = "editor" => opened = last.newpath)

\* edit has copied a read-only layer's sheet into the first writable layer
\* while a more local writable layer exists
C4_Witness ==
    /\ last.op = "edit" /\ last.branch = "copy" /\ pc = "editor"
    /\ \E j \in 1..Len(last.paths) : j > last.target /\ ~last.paths[j].readonly

(* C5: when every layer is read-only (and there is no local .cheat layer), *)
(* edit fails with the no-writable-layer error and exit code 1, whether    *)
(* the name was found or not, and creates no directory, creates or copies  *)
(* no file and launches no editor.                                         *)
C5_NoWritableLayerNoMutation ==
    [][(EditStep /\ \A i \in 1..Len(Layers) : Layers[i].readonly)
       => /\ last'.branch = "nowritable"
          /\ last'.exit = 1
          /\ out'[Len(out')] = NoWritable
          /\ files' = files
          /\ dirs' = dirs
          /\ pc' = "idle" /\ opened' = ""]_vars

\* edit has failed for want of a writable layer on a name found in a
\* read-only layer
C5_Witness ==
    /\ last.op = "edit" /\ last.branch = "nowritable" /\ last.exit = 1
    /\ last.entry # 0 /\ last.paths[last.entry].readonly

(* C6: a name that is an exact file in exactly one layer L resolves to     *)
(* that file whatever the other layers hold, also when a more local layer  *)
(* holds N.<ext> and no exact file N.                                      *)
C6_ExactFileInOneLayer ==
    Viewed =>
        \A L \in 1..Len(Layers) :
            (/\ Present(L, last.name)
             /\ \A j \in 1..Len(Layers) : j # L => ~Present(j, last.name))
            => last.entry = L /\ resolve(dirs, last.path) = Candidate(L, last.name)

(* C6, amended: a name that is an exact file in exactly one layer L        *)
(* resolves to that file whatever the more global layers hold, provided no *)
(* layer more local than L holds an entry named N.<ext> (or a file at its  *)
(* join(root, N)).                                                         *)
C6_ExactFileUnlessShadowed ==
    Viewed =>
        \A L \in 1..Len(Layers) :
            (/\ Present(L, last.name)
             /\ \A j \in 1..Len(Layers) : j # L => ~Present(j, last.name)
             /\ \A j \in (L + 1)..Len(Layers) :
                    /\ ~isfile(files, dirs, join(Layers[j].path, last.name))
                    /\ \A e \in DOMAIN files \cup dirs :
                           ~IsExtensionOf(e, Candidate(j, last.name)))
            => last.entry = L /\ resolve(dirs, last.path) = Candidate(L, last.name)

\* view has returned the exact file of the one layer that has it, while a
\* more global layer holds the name with an extension
C6_Witness ==
    /\ Viewed /\ last.entry # 0
    /\ Present(last.entry, last.name)
    /\ \A j \in 1..Len(Layers) : j # last.entry => ~Present(j, last.name)
    /\ \E j \in 1..(last.entry - 1) : Answers(j, last.name) # {}

(* C7: when a layer holds no exact file N but files N.<ext>, a lookup      *)
(* returns the smallest of them in lexicographic order, whatever the order *)
(* the directory enumerates them in, and only a file with one extension    *)
(* segment appended to N.                                                  *)
C7_SmallestExtensionWins ==
    (/\ Viewed /\ last.entry # 0
     /\ Inside(Candidate(last.entry, last.name), RootOf(Layers, last.entry))
     /\ ~Present(last.entry, last.name)) =>
        LET c == Candidate(last.entry, last.name)
            E == {f \in DOMAIN files :
                     /\ IsExtensionOf(f, c)
                     /\ find(SubSeq(basename(f), Len(basename(c)) + 2,
                                    Len(basename(f))), ".") = 0}
            got == resolve(dirs, last.path)
        IN  /\ got \in E
            /\ \A m \in E : m = got \/ strless(got, m)

(* C8: no name that list prints and no hit that search prints comes from a *)
(* file whose path relative to its layer has a segment starting with a     *)
(* dot, the file's own name or a directory above it.  (Such a file's sheet *)
(* name keeps the dotted segment, so no other file prints the same name.)  *)
C8_HiddenEntriesIgnored ==
    last.op \in {"list", "search"} =>
        \A i \in 1..Len(last.paths) :
            \A f \in DOMAIN files :
                (/\ Inside(f, RootOf(last.paths, i))
                 /\ Hidden(relpath(f, RootOf(last.paths, i))))
                => \A k \in 1..Len(out) :
                       out[k].sheet # splitext(relpath(f, RootOf(last.paths, i)))[1]

(* C9: every directory an edit creates, every file it copies to and the    *)
(* path it hands to the editor lie inside the root of the writable layer   *)
(* it selected, whatever the name, in the create-new and in the            *)
(* copy-on-write case.                                                     *)
C9_WritesStayInsideTarget ==
    [][(EditStep /\ last'.target # 0)
       => LET root == RootOf(last'.paths, last'.target)
          IN  /\ \A d \in dirs' \ dirs : Inside(d, root)
              /\ \A f \in DOMAIN files' :
                    (f \notin DOMAIN files \/ files'[f] # files[f]) => Inside(f, root)
              /\ (pc' = "editor" => Inside(abspath(opened'), root))]_vars

(* C10: once edit has copied a read-only layer's sheet, a lookup of the    *)
(* name returns the copy in the writable layer, so that a later edit opens *)
(* the copy in place; no copy overwrites a file that was there before.     *)
C10_CopiedOnce ==
    [][(EditStep /\ last'.branch = "copy")
       => /\ resolve(dirs', last'.newpath) \notin DOMAIN files
          /\ \A r \in find_cheatsheet(files', dirs', last'.name,
                                      get_cheatpaths(config', dirs')) :
                /\ r.entry = last'.target
                /\ resolve(dirs', r.path) = resolve(dirs', last'.newpath)]_vars

====
